---- MODULE Spec2Model ----
(***************************************************************************)
(* Model of src/checkConferenceAgenda.py: the Lex code hook that manages   *)
(* the dialog of the CheckConferenceAgenda intent.                         *)
(*                                                                         *)
(* Encoding of Python values:                                              *)
(*   - an optional value is a sequence of length <= 1: None is <<>> and a  *)
(*     value v is <<v>>;                                                   *)
(*   - a SessionTime string and the agenda's start/end strings are         *)
(*     sequences of one-character strings, so that len(), split(':'),      *)
(*     int() and the lexicographic '>' are computed character by           *)
(*     character;                                                          *)
(*   - track, date and name strings are TLA+ strings; lower() and          *)
(*     dateutil.parser.parse() are tables over the strings of the model;   *)
(*   - a dict with fixed keys is a record, the sessionAttributes bag is a  *)
(*     set of <<key, value>> pairs;                                        *)
(*   - a formatted text is the sequence of the pieces format() joins.      *)
(***************************************************************************)
EXTENDS Integers, Sequences, FiniteSets, TLC

VARIABLES request, response, pre, pc, call

vars == <<request, response, pre, pc, call>>

-----------------------------------------------------------------------------
(* Bounds of the model: the hours of the clock times tried. *)
MinHour == 7
MaxHour == 18

\* The longest list of options handed to build_response_card.
MaxOptions == 7

\* The longest list of types handed to build_options.
MaxTypes == 3

\* The number of conversations whose invocations interleave.
MaxConversations == 2

\* The number of turns of a conversation followed from its first turn.
MaxTurns == 4

-----------------------------------------------------------------------------
(* Python values *)

None == <<>>
Some(x) == <<x>>

\* Truth value of an optional string: None and '' are false.
Truthy(x) == x # None /\ Len(x[1]) > 0

Min(a, b) == IF a < b THEN a ELSE b

DigitChars == <<"0", "1", "2", "3", "4", "5", "6", "7", "8", "9">>

IsDigit(c) == \E n \in 1..10 : DigitChars[n] = c

DigitVal(c) == (CHOOSE n \in 1..10 : DigitChars[n] = c) - 1

\* The string literal "HH:MM" of hour h and minute m, zero-padded.
HHMM(h, m) ==
    <<DigitChars[(h \div 10) + 1], DigitChars[(h % 10) + 1], ":",
      DigitChars[(m \div 10) + 1], DigitChars[(m % 10) + 1]>>

\* Code point of a character of the model's alphabet.
Ord(c) ==
    IF IsDigit(c) THEN 48 + DigitVal(c)
    ELSE CASE c = ":" -> 58
           [] c = "-" -> 45
           [] c = "+" -> 43
           [] c = "a" -> 97
           [] c = "m" -> 109
           [] c = "x" -> 120

\* a > b on str: lexicographic order of the code points.
StrGT(a, b) ==
    \/ \E i \in 1..Min(Len(a), Len(b)) :
          /\ \A j \in 1..(i - 1) : a[j] = b[j]
          /\ Ord(a[i]) > Ord(b[i])
    \/ /\ Len(a) > Len(b)
       /\ \A j \in 1..Len(b) : a[j] = b[j]

\* s.split(':')
RECURSIVE SplitColon(_)
SplitColon(s) ==
    IF \A i \in 1..Len(s) : s[i] # ":"
    THEN <<s>>
    ELSE LET i == CHOOSE k \in 1..Len(s) :
                      s[k] = ":" /\ \A j \in 1..(k - 1) : s[j] # ":"
         IN  <<SubSeq(s, 1, i - 1)>> \o SplitColon(SubSeq(s, i + 1, Len(s)))

\* Value of a non-empty sequence of decimal digits.
RECURSIVE DecimalValue(_)
DecimalValue(s) ==
    IF Len(s) = 0 THEN 0
    ELSE 10 * DecimalValue(SubSeq(s, 1, Len(s) - 1)) + DigitVal(s[Len(s)])

\* A Python number: an int, or float('nan').
NaN == [nan |-> TRUE, val |-> 0]
PyInt(v) == [nan |-> FALSE, val |-> v]
isnan(x) == x.nan

\* int(n) accepts an optional sign followed by decimal digits (the alphabet
\* of the model has no white space and no underscore); anything else is a
\* ValueError, which parse_int turns into NaN.
parse_int(n) ==
    LET signed == Len(n) > 0 /\ n[1] \in {"-", "+"}
        digits == IF signed THEN SubSeq(n, 2, Len(n)) ELSE n
    IN  IF Len(digits) > 0 /\ \A i \in 1..Len(digits) : IsDigit(digits[i])
        THEN PyInt(IF signed /\ n[1] = "-"
                   THEN 0 - DecimalValue(digits)
                   ELSE DecimalValue(digits))
        ELSE NaN

\* str.lower() on the track strings of the model.
Lower(s) ==
    CASE s = "Inspire Me" -> "inspire me"
      [] s = "Tech Specific" -> "tech specific"
      [] s = "Seminar" -> "seminar"
      [] OTHER -> s

\* dateutil.parser.parse(date): the calendar date parsed, or a ValueError.
dateutil_parse(date) ==
    CASE date = "2017-11-08" -> [ok |-> TRUE, date |-> <<2017, 11, 8>>]
      [] date = "11/08/2017" -> [ok |-> TRUE, date |-> <<2017, 11, 8>>]
      [] date = "2017-11-09" -> [ok |-> TRUE, date |-> <<2017, 11, 9>>]
      [] OTHER -> [ok |-> FALSE]

isvalid_date(date) == dateutil_parse(date).ok

\* datetime.strptime('2017-11-08', '%Y-%m-%d').date()
ConferenceDate == <<2017, 11, 8>>

\* The outcome of a call: a returned value or a raised exception.
Return(v) == [raised |-> "none", value |-> v]
Raise(e) == [raised |-> e]

InList(x, list) == \E i \in 1..Len(list) : list[i] = x

-----------------------------------------------------------------------------
(* Helpers *)

PlainText(content) == [contentType |-> "PlainText", content |-> content]

build_validation_result(is_valid, violated_slot, message_content) ==
    IF message_content = None
    THEN [isValid |-> is_valid, violatedSlot |-> violated_slot]
    ELSE [isValid |-> is_valid, violatedSlot |-> violated_slot,
          message |-> PlainText(message_content[1])]

TypeMessage(session_type) ==
    <<"We cannot find a track named ", session_type,
      ". The available tracks are Inspire Me, Tech Specific and Seminar">>

DateFormatMessage ==
    <<"I did not understand that, what date would you like to check? e.g. 2017-11-08">>

DateDayMessage ==
    <<"Sorry, we only have one day agenda for this demo. Please input the conference day 2017-11-08.">>

HoursMessage ==
    <<"The conference hours are from 9am to 6pm. Can you specify a time during this range?">>

\* validate_time with the hours of its message, 9am to 6pm, as the bounds.
validate_time_nine_to_six(session_time) ==
    IF Len(session_time) # 5
    THEN Return(build_validation_result(FALSE, Some("SessionTime"), None))
    ELSE LET parts == SplitColon(session_time)
         IN  IF Len(parts) # 2
             THEN Raise("ValueError")
             ELSE LET hour == parse_int(parts[1])
                      minute == parse_int(parts[2])
                  IN  IF isnan(hour) \/ isnan(minute)
                      THEN Return(build_validation_result(
                                      FALSE, Some("SessionTime"), None))
                      ELSE IF hour.val < 9 \/ hour.val > 18
                      THEN Return(build_validation_result(
                                      FALSE, Some("SessionTime"), Some(HoursMessage)))
                      ELSE Return(build_validation_result(TRUE, None, None))

\* The time check of validate_conference_booking, for a time that is not None.
validate_time(session_time) ==
    IF Len(session_time) # 5
    THEN Return(build_validation_result(FALSE, Some("SessionTime"), None))
    ELSE LET parts == SplitColon(session_time)
         IN  IF Len(parts) # 2
             THEN Raise("ValueError")    \* hour, minute = ... cannot unpack
             ELSE LET hour == parse_int(parts[1])
                      minute == parse_int(parts[2])
                  IN  IF isnan(hour) \/ isnan(minute)
                      THEN Return(build_validation_result(
                                      FALSE, Some("SessionTime"), None))
                      ELSE IF hour.val < 8 \/ hour.val > 17
                      THEN Return(build_validation_result(
                                      FALSE, Some("SessionTime"), Some(HoursMessage)))
                      ELSE Return(build_validation_result(TRUE, None, None))

validate_conference_booking(session_type, session_date, session_time, type_set) ==
    IF session_type # None /\ ~InList(Lower(session_type[1]), type_set)
    THEN Return(build_validation_result(
                    FALSE, Some("SessionType"), Some(TypeMessage(session_type[1]))))
    ELSE IF session_date # None /\ ~isvalid_date(session_date[1])
    THEN Return(build_validation_result(
                    FALSE, Some("SessionDate"), Some(DateFormatMessage)))
    ELSE IF session_date # None
            /\ dateutil_parse(session_date[1]).date # ConferenceDate
    THEN Return(build_validation_result(
                    FALSE, Some("SessionDate"), Some(DateDayMessage)))
    ELSE IF session_time # None
    THEN validate_time(session_time[1])
    ELSE Return(build_validation_result(TRUE, None, None))

-----------------------------------------------------------------------------
(* The values book_session hard-codes *)

session_types == <<"inspire me", "tech specific", "seminar">>

\* json.loads(agenda_json): the list of the sessions, in the literal's order.
agenda_json ==
    <<
      [name |-> "Opening Remarks",
       track |-> "Inspire Me", date |-> "2017-11-08", start |-> HHMM(9, 15), end |-> HHMM(9, 30)],
      [name |-> "How Technology Lets You Be YOU",
       track |-> "Inspire Me", date |-> "2017-11-08", start |-> HHMM(9, 30), end |-> HHMM(10, 0)],
      [name |-> "The Invisible Made Visible",
       track |-> "Inspire Me", date |-> "2017-11-08", start |-> HHMM(10, 0), end |-> HHMM(10, 30)],
      [name |-> "Business and Cultural Transformation in a Digital World",
       track |-> "Inspire Me", date |-> "2017-11-08", start |-> HHMM(10, 30), end |-> HHMM(11, 0)],
      [name |-> "How Agile Tribes support WiT",
       track |-> "Inspire Me", date |-> "2017-11-08", start |-> HHMM(11, 0), end |-> HHMM(11, 30)],
      [name |-> "The Road Ahead",
       track |-> "Inspire Me", date |-> "2017-11-08", start |-> HHMM(11, 30), end |-> HHMM(12, 0)],
      [name |-> "Quantifying the Effect of D&I Policy",
       track |-> "Inspire Me", date |-> "2017-11-08", start |-> HHMM(12, 0), end |-> HHMM(12, 30)],
      [name |-> "How We Try to Make a Lion Bulletproof",
       track |-> "Inspire Me", date |-> "2017-11-08", start |-> HHMM(12, 30), end |-> HHMM(13, 0)],
      [name |-> "Leading Teams in Tech",
       track |-> "Inspire Me", date |-> "2017-11-08", start |-> HHMM(14, 0), end |-> HHMM(14, 30)],
      [name |-> "Using Situational Awareness to Make Decisions",
       track |-> "Inspire Me", date |-> "2017-11-08", start |-> HHMM(14, 30), end |-> HHMM(15, 0)],
      [name |-> "How to Take Charge of your Life-Work Balance and Succeed in Ever-Changing Technology World",
       track |-> "Inspire Me", date |-> "2017-11-08", start |-> HHMM(15, 0), end |-> HHMM(15, 30)],
      [name |-> "The Road Less Traveled By: Engineering a Career in Cybersecurity",
       track |-> "Inspire Me", date |-> "2017-11-08", start |-> HHMM(16, 0), end |-> HHMM(16, 30)],
      [name |-> "An Engineering Managers Toolkit",
       track |-> "Inspire Me", date |-> "2017-11-08", start |-> HHMM(16, 30), end |-> HHMM(17, 0)],
      [name |-> "The Path for Women to Rule the Technology World",
       track |-> "Inspire Me", date |-> "2017-11-08", start |-> HHMM(17, 0), end |-> HHMM(17, 30)],
      [name |-> "Big Data: Myths vs Realities",
       track |-> "Tech Specific", date |-> "2017-11-08", start |-> HHMM(11, 30), end |-> HHMM(12, 0)],
      [name |-> "Browser Peer to Peer Connections for Fun and Profit",
       track |-> "Tech Specific", date |-> "2017-11-08", start |-> HHMM(12, 0), end |-> HHMM(12, 30)],
      [name |-> "Building an AI that Respects your Privacy",
       track |-> "Tech Specific", date |-> "2017-11-08", start |-> HHMM(12, 30), end |-> HHMM(13, 0)],
      [name |-> "Geek + E.I. = Success in AI",
       track |-> "Tech Specific", date |-> "2017-11-08", start |-> HHMM(14, 0), end |-> HHMM(14, 30)],
      [name |-> "Machine Learning Around Us",
       track |-> "Tech Specific", date |-> "2017-11-08", start |-> HHMM(14, 30), end |-> HHMM(15, 0)],
      [name |-> "Metabolic Modelling Software",
       track |-> "Tech Specific", date |-> "2017-11-08", start |-> HHMM(15, 0), end |-> HHMM(15, 30)],
      [name |-> "Project Liftoff",
       track |-> "Tech Specific", date |-> "2017-11-08", start |-> HHMM(16, 0), end |-> HHMM(16, 30)],
      [name |-> "New Kid on the Block(Chain)",
       track |-> "Tech Specific", date |-> "2017-11-08", start |-> HHMM(16, 30), end |-> HHMM(17, 0)],
      [name |-> "Optimizing Scrolling Performance of UITableView&UICollectionView",
       track |-> "Tech Specific", date |-> "2017-11-08", start |-> HHMM(17, 0), end |-> HHMM(17, 30)],
      [name |-> "Augmented Reality: Past, Present & Future",
       track |-> "Seminar", date |-> "2017-11-08", start |-> HHMM(12, 30), end |-> HHMM(13, 0)],
      [name |-> "Afraid of being Found Out: Kicking Imposter Syndrome in its Stupid Face!",
       track |-> "Seminar", date |-> "2017-11-08", start |-> HHMM(14, 0), end |-> HHMM(15, 0)],
      [name |-> "Developing for the Human Experience",
       track |-> "Seminar", date |-> "2017-11-08", start |-> HHMM(15, 0), end |-> HHMM(15, 30)],
      [name |-> "How to Build a Team; Diversity & Gender Inclusivity",
       track |-> "Seminar", date |-> "2017-11-08", start |-> HHMM(17, 0), end |-> HHMM(17, 30)]
    >>

-----------------------------------------------------------------------------
(* Builders of the dialog actions *)

elicit_slot(session_attributes, intent_name, slots, slot_to_elicit, message, response_card) ==
    [sessionAttributes |-> session_attributes,
     dialogAction |-> [type |-> "ElicitSlot",
                       intentName |-> intent_name,
                       slots |-> slots,
                       slotToElicit |-> slot_to_elicit,
                       message |-> message,
                       responseCard |-> response_card]]

confirm_intent(session_attributes, intent_name, slots, message, response_card) ==
    [sessionAttributes |-> session_attributes,
     dialogAction |-> [type |-> "ConfirmIntent",
                       intentName |-> intent_name,
                       slots |-> slots,
                       message |-> message,
                       responseCard |-> response_card]]

close(session_attributes, fulfillment_state, message, response_card) ==
    [sessionAttributes |-> session_attributes,
     dialogAction |-> [type |-> "Close",
                       fulfillmentState |-> fulfillment_state,
                       message |-> message,
                       responseCard |-> response_card]]

\* delegate handing back an empty attribute bag.
delegate_without_attributes(session_attributes, slots) ==
    [sessionAttributes |-> Some({}),
     dialogAction |-> [type |-> "Delegate",
                       slots |-> slots]]

delegate(session_attributes, slots) ==
    [sessionAttributes |-> session_attributes,
     dialogAction |-> [type |-> "Delegate",
                       slots |-> slots]]

\* build_response_card with a button for every option.
build_response_card_untruncated(title, subtitle, options) ==
    [contentType |-> "application/vnd.amazonaws.card.generic",
     version |-> 1,
     genericAttachments |-> <<[title |-> title,
                               subTitle |-> subtitle,
                               buttons |-> options]>>]

\* options is an optional list; buttons is None when options is None.
build_response_card(title, subtitle, options) ==
    LET buttons == IF options # None
                   THEN Some(SubSeq(options[1], 1, Min(5, Len(options[1]))))
                   ELSE None
    IN  [contentType |-> "application/vnd.amazonaws.card.generic",
         version |-> 1,
         genericAttachments |-> <<[title |-> title,
                                   subTitle |-> subtitle,
                                   buttons |-> buttons]>>]

\* The condition of the scan of find_session on session s.
SessionMatches(s, session_type, session_date, session_time) ==
    /\ Lower(s.track) = Lower(session_type)
    /\ s.date = session_date
    /\ StrGT(s.start, session_time)

\* find_session with the scan running to the end: the last match is returned.
find_session_last_match(session_type, session_date, session_time, agenda) ==
    IF Truthy(session_type)
    THEN LET hits == {i \in 1..Len(agenda) :
                         SessionMatches(agenda[i], session_type[1],
                                        session_date, session_time)}
         IN  IF hits = {} THEN None
             ELSE Some(agenda[CHOOSE i \in hits : \A j \in hits : i >= j])
    ELSE None

\* find_session with start >= session_time as the condition on the start.
find_session_not_before(session_type, session_date, session_time, agenda) ==
    IF Truthy(session_type)
    THEN LET hits == {i \in 1..Len(agenda) :
                         /\ Lower(agenda[i].track) = Lower(session_type[1])
                         /\ agenda[i].date = session_date
                         /\ ~StrGT(session_time, agenda[i].start)}
         IN  IF hits = {} THEN None
             ELSE Some(agenda[CHOOSE i \in hits : \A j \in hits : i <= j])
    ELSE None

\* session_type is optional; session_date and session_time are strings.
\* The first session of the list that matches, or None.
find_session(session_type, session_date, session_time, agenda) ==
    IF Truthy(session_type)
    THEN LET hits == {i \in 1..Len(agenda) :
                         SessionMatches(agenda[i], session_type[1],
                                        session_date, session_time)}
         IN  IF hits = {} THEN None
             ELSE Some(agenda[CHOOSE i \in hits : \A j \in hits : i <= j])
    ELSE None

OptionText(s) == <<s.track, " at ", s.start>>

\* build_options with the track of the session found as the value of a button.
RECURSIVE build_options_upto_track_value(_, _, _, _, _)
build_options_upto_track_value(session_date, session_time, agenda, type_set, k) ==
    IF k = 0 THEN <<>>
    ELSE LET s == find_session(Some(type_set[k]), session_date, session_time, agenda)
             before == build_options_upto_track_value(session_date, session_time,
                                                      agenda, type_set, k - 1)
         IN  IF s # None
             THEN Append(before, [text |-> OptionText(s[1]), value |-> s[1].track])
             ELSE before

\* The options of the first k types of type_set, in order.
RECURSIVE build_options_upto(_, _, _, _, _)
build_options_upto(session_date, session_time, agenda, type_set, k) ==
    IF k = 0 THEN <<>>
    ELSE LET s == find_session(Some(type_set[k]), session_date, session_time, agenda)
             before == build_options_upto(session_date, session_time, agenda,
                                          type_set, k - 1)
         IN  IF s # None
             THEN Append(before, [text |-> OptionText(s[1]), value |-> type_set[k]])
             ELSE before

build_options(session_date, session_time, agenda, type_set) ==
    build_options_upto(session_date, session_time, agenda, type_set, Len(type_set))

-----------------------------------------------------------------------------
(* Functions that control the bot's behavior *)

get_slots(intent_request) == intent_request.currentIntent.slots

\* The outcome of a handler: the exception raised ("none" when it returned),
\* the response returned (None when it raised) and the request's slots dict
\* as the call leaves it.
Returned(resp, slots) == [raised |-> "none", value |-> Some(resp), slots |-> slots]
Raised(e, slots) == [raised |-> e, value |-> None, slots |-> slots]

DigestLine(t, session_date, session_time, agenda) ==
    LET session == find_session(Some(t), session_date, session_time, agenda)
    IN  IF session # None
        THEN <<"-", session[1].track, " track: ", session[1].name,
               " from ", session[1].start, " to ", session[1].end, "\n">>
        ELSE <<"-", t, " track: None\n">>

DigestContent(session_date, session_time, agenda, types) ==
    <<"Sessions found: \n">>
    \o [i \in 1..Len(types) |->
            DigestLine(types[i], session_date, session_time, agenda)]
    \o <<"\nWhat track would you like to attend?">>

YesNoOptions == <<[text |-> "yes", value |-> "yes"], [text |-> "no", value |-> "no"]>>

RatingOptions ==
    <<[text |-> "Great!", value |-> "1"], [text |-> "Fine.", value |-> "0"],
      [text |-> "Boring :(", value |-> "-1"]>>

\* ValidationFailure without line 218: the violated slot keeps its value.
ValidationFailure_keeps_slot(intent_request, validation_result) ==
    LET slots == get_slots(intent_request)
    IN  IF "message" \notin DOMAIN validation_result
        THEN Raised("KeyError", slots)
        ELSE Returned(elicit_slot(intent_request.sessionAttributes,
                                  intent_request.currentIntent.name,
                                  slots,
                                  validation_result.violatedSlot,
                                  Some(validation_result.message),
                                  None),
                      slots)

\* Lines 216-225: the validation result is not valid.
ValidationFailure(intent_request, validation_result) ==
    LET slots == [get_slots(intent_request)
                      EXCEPT ![validation_result.violatedSlot[1]] = None]
    IN  IF "message" \notin DOMAIN validation_result
        THEN Raised("KeyError", slots)
        ELSE Returned(elicit_slot(intent_request.sessionAttributes,
                                  intent_request.currentIntent.name,
                                  slots,
                                  validation_result.violatedSlot,
                                  Some(validation_result.message),
                                  None),
                      slots)

\* Lines 227-249: date and time are known, the type is not.
ElicitType(intent_request, output_session_attributes) ==
    LET slots == get_slots(intent_request)
        session_date == slots.SessionDate[1]
        session_time == slots.SessionTime[1]
    IN  Returned(elicit_slot(
                     output_session_attributes,
                     intent_request.currentIntent.name,
                     slots,
                     Some("SessionType"),
                     Some(PlainText(DigestContent(session_date, session_time,
                                                  agenda_json, session_types))),
                     Some(build_response_card(
                              "Specify Track",
                              "What track would you like to attend?",
                              Some(build_options(session_date, session_time,
                                                 agenda_json, session_types))))),
                 slots)

\* Lines 251-267: the three slots are known and nothing is confirmed yet.
ConfirmBooking(intent_request, output_session_attributes) ==
    LET slots == get_slots(intent_request)
        session == find_session(slots.SessionType, slots.SessionDate[1],
                                slots.SessionTime[1], agenda_json)
    IN  IF session = None
        THEN Raised("TypeError", slots)    \* session['name'] on None
        ELSE Returned(confirm_intent(
                          output_session_attributes,
                          intent_request.currentIntent.name,
                          slots,
                          Some(PlainText(<<"Session ", session[1].name, " in the ",
                                           session[1].track, " track at ",
                                           session[1].start, " on ",
                                           session[1].date>>)),
                          Some(build_response_card(
                                   "Confirm attendence",
                                   "Do you want to book the session?",
                                   Some(YesNoOptions)))),
                      slots)

\* Lines 273-287: the fulfillment turn.
Fulfill(intent_request) ==
    Returned(close(intent_request.sessionAttributes,
                   "Fulfilled",
                   Some(PlainText(<<"Thank you. We have booked the session for you.">>)),
                   Some(build_response_card(
                            "Rate the session",
                            "What do you think about this session?",
                            Some(RatingOptions)))),
             get_slots(intent_request))

\* DialogTurn asking for a confirmation whatever the confirmationStatus.
DialogTurn_reconfirms(intent_request) ==
    LET session_type == get_slots(intent_request).SessionType
        session_date == get_slots(intent_request).SessionDate
        session_time == get_slots(intent_request).SessionTime
        output_session_attributes ==
            IF intent_request.sessionAttributes # None
            THEN intent_request.sessionAttributes
            ELSE Some({})
        v == validate_conference_booking(session_type, session_date,
                                         session_time, session_types)
    IN  IF v.raised # "none"
        THEN Raised(v.raised, get_slots(intent_request))
        ELSE IF ~v.value.isValid
        THEN ValidationFailure(intent_request, v.value)
        ELSE IF Truthy(session_date) /\ Truthy(session_time)
                /\ ~Truthy(session_type)
        THEN ElicitType(intent_request, output_session_attributes)
        ELSE IF Truthy(session_date) /\ Truthy(session_time) /\ Truthy(session_type)
        THEN ConfirmBooking(intent_request, output_session_attributes)
        ELSE Returned(delegate(output_session_attributes,
                               get_slots(intent_request)),
                      get_slots(intent_request))

\* Lines 211-271: the turn of a DialogCodeHook invocation.
DialogTurn(intent_request) ==
    LET session_type == get_slots(intent_request).SessionType
        session_date == get_slots(intent_request).SessionDate
        session_time == get_slots(intent_request).SessionTime
        output_session_attributes ==
            IF intent_request.sessionAttributes # None
            THEN intent_request.sessionAttributes
            ELSE Some({})
        v == validate_conference_booking(session_type, session_date,
                                         session_time, session_types)
    IN  IF v.raised # "none"
        THEN Raised(v.raised, get_slots(intent_request))
        ELSE IF ~v.value.isValid
        THEN ValidationFailure(intent_request, v.value)
        ELSE IF Truthy(session_date) /\ Truthy(session_time)
                /\ ~Truthy(session_type)
        THEN ElicitType(intent_request, output_session_attributes)
        ELSE IF /\ Truthy(session_date) /\ Truthy(session_time)
                /\ Truthy(session_type)
                /\ intent_request.currentIntent.confirmationStatus = "None"
        THEN ConfirmBooking(intent_request, output_session_attributes)
        ELSE Returned(delegate(output_session_attributes,
                               get_slots(intent_request)),
                      get_slots(intent_request))

\* book_session validating the slots on the fulfillment turn too.
book_session_revalidates(intent_request) ==
    LET turn == DialogTurn(intent_request)
    IN  IF intent_request.invocationSource = "DialogCodeHook"
           \/ turn.slots # get_slots(intent_request)
        THEN turn
        ELSE Fulfill(intent_request)

\* book_session with the test of the invocation source inverted.
book_session_swapped_sources(intent_request) ==
    IF intent_request.invocationSource = "DialogCodeHook"
    THEN Fulfill(intent_request)
    ELSE DialogTurn(intent_request)

book_session(intent_request) ==
    IF intent_request.invocationSource = "DialogCodeHook"
    THEN DialogTurn(intent_request)
    ELSE Fulfill(intent_request)

\* dispatch handing every intent to book_session.
dispatch_any_intent(intent_request) == book_session(intent_request)

dispatch(intent_request) ==
    IF intent_request.currentIntent.name = "CheckConferenceAgenda"
    THEN book_session(intent_request)
    ELSE Raised("Exception", get_slots(intent_request))

lambda_handler(event) == dispatch(event)

-----------------------------------------------------------------------------
(* The requests of the host runtime *)

TypeInputs ==
    {None, Some(""), Some("inspire me"), Some("Inspire Me"),
     Some("tech specific"), Some("Tech Specific"), Some("seminar"),
     Some("keynote")}

DateInputs ==
    {None, Some("2017-11-08"), Some("11/08/2017"), Some("2017-11-09"),
     Some("someday")}

Quarters == {0, 15, 30, 45}

ClockTimes == {HHMM(h, m) : h \in MinHour..MaxHour, m \in Quarters}

\* 9am, 1030, 10:150, 12345, 1:2:3, aa:mm, 10:xx, 8:000, -1:30
OddTimes ==
    {<<"9", "a", "m">>, <<"1", "0", "3", "0">>,
     <<"1", "0", ":", "1", "5", "0">>,
     <<"1", "2", "3", "4", "5">>, <<"1", ":", "2", ":", "3">>,
     <<"a", "a", ":", "m", "m">>, <<"1", "0", ":", "x", "x">>,
     <<"8", ":", "0", "0", "0">>, <<"-", "1", ":", "3", "0">>}

TimeInputs == {None} \cup {Some(t) : t \in ClockTimes \cup OddTimes}

SlotNames == {"SessionType", "SessionDate", "SessionTime"}

SlotInputs ==
    [SessionType |-> TypeInputs, SessionDate |-> DateInputs,
     SessionTime |-> TimeInputs]

SlotSets ==
    [SessionType : TypeInputs, SessionDate : DateInputs, SessionTime : TimeInputs]

ConfirmationStatuses == {"None", "Confirmed", "Denied"}

InvocationSources == {"DialogCodeHook", "FulfillmentCodeHook"}

AttributeBags == {None, Some({<<"lastTrack", "seminar">>})}

IntentNames == {"CheckConferenceAgenda", "OrderFlowers"}

Request(name, slots, status, attributes, source) ==
    [currentIntent |-> [name |-> name, slots |-> slots,
                        confirmationStatus |-> status],
     sessionAttributes |-> attributes,
     invocationSource |-> source]

Requests ==
    {Request(n, s, c, a, i) :
        n \in IntentNames, s \in SlotSets, c \in ConfirmationStatuses,
        a \in AttributeBags, i \in InvocationSources}

NoResponse == [raised |-> "none", value |-> None]

NoCall == [fn |-> "none", args |-> <<>>, ret |-> None]

-----------------------------------------------------------------------------
(* The turns of a conversation *)

Init ==
    /\ request \in Requests
    /\ response = NoResponse
    /\ pre = get_slots(request)
    /\ pc = "request"
    /\ call = NoCall

\* The host runtime invokes the handler on the pending request.
Invoke ==
    /\ pc = "request"
    /\ LET r == lambda_handler(request)
       IN  /\ response' = [raised |-> r.raised, value |-> r.value]
           /\ request' = [request EXCEPT !.currentIntent.slots = r.slots]
    /\ pre' = get_slots(request)
    /\ pc' = "response"
    /\ UNCHANGED call

Action == response.value[1].dialogAction

\* The host runtime re-submits the slots an action hands back, unchanged.
Resubmit ==
    /\ pc = "response"
    /\ response.value # None
    /\ "slots" \in DOMAIN Action
    /\ \E c \in ConfirmationStatuses, i \in InvocationSources :
          request' = Request(request.currentIntent.name, Action.slots, c,
                             request.sessionAttributes, i)
    /\ response' = NoResponse
    /\ pre' = Action.slots
    /\ pc' = "request"
    /\ UNCHANGED call

\* The user answers a prompt: the host runtime fills one slot of the slots the
\* action handed back and submits them on a dialog turn.
UserFills ==
    /\ pc = "response"
    /\ response.value # None
    /\ "slots" \in DOMAIN Action
    /\ \E k \in SlotNames :
          \E v \in SlotInputs[k] \ {Action.slots[k]} :
             LET s == [Action.slots EXCEPT ![k] = v]
             IN  /\ request' = Request(request.currentIntent.name, s, "None",
                                       request.sessionAttributes, "DialogCodeHook")
                 /\ pre' = s
    /\ response' = NoResponse
    /\ pc' = "request"
    /\ UNCHANGED call

Next == Invoke \/ Resubmit \/ UserFills

Spec == Init /\ [][Next]_vars

-----------------------------------------------------------------------------
(* Calls of the pure functions on inputs of their own *)

IdleRequest ==
    Request("CheckConferenceAgenda",
            [SessionType |-> None, SessionDate |-> None, SessionTime |-> None],
            "None", None, "DialogCodeHook")

Idle ==
    /\ request = IdleRequest
    /\ response = NoResponse
    /\ pre = get_slots(IdleRequest)
    /\ pc = "call"

InitValidate ==
    /\ Idle
    /\ \E t \in TypeInputs, d \in DateInputs, m \in TimeInputs :
          call = [fn |-> "validate_conference_booking", args |-> <<t, d, m>>,
                  ret |-> None]

CallValidate ==
    /\ pc = "call"
    /\ call.fn = "validate_conference_booking"
    /\ call' = [call EXCEPT !.ret =
                   Some(validate_conference_booking(call.args[1], call.args[2],
                                                    call.args[3], session_types))]
    /\ pc' = "return"
    /\ UNCHANGED <<request, response, pre>>

SpecValidate == InitValidate /\ [][CallValidate]_vars

DateStrings == {d[1] : d \in DateInputs \ {None}}

InitFind ==
    /\ Idle
    /\ \E t \in TypeInputs, d \in DateStrings, m \in ClockTimes :
          call = [fn |-> "find_session", args |-> <<t, d, m>>, ret |-> None]

CallFind ==
    /\ pc = "call"
    /\ call.fn = "find_session"
    /\ call' = [call EXCEPT !.ret =
                   Some(find_session(call.args[1], call.args[2], call.args[3],
                                     agenda_json))]
    /\ pc' = "return"
    /\ UNCHANGED <<request, response, pre>>

SpecFind == InitFind /\ [][CallFind]_vars

\* The option lists tried: every list of yes/no options up to MaxOptions long.
OptionLists == UNION {[1..n -> {YesNoOptions[1], YesNoOptions[2]}] : n \in 0..MaxOptions}

InitCard ==
    /\ Idle
    /\ \E o \in {None} \cup {Some(l) : l \in OptionLists} :
          call = [fn |-> "build_response_card", args |-> <<o>>, ret |-> None]

CallCard ==
    /\ pc = "call"
    /\ call.fn = "build_response_card"
    /\ call' = [call EXCEPT !.ret =
                   Some(build_response_card("Specify Track",
                                            "What track would you like to attend?",
                                            call.args[1]))]
    /\ pc' = "return"
    /\ UNCHANGED <<request, response, pre>>

SpecCard == InitCard /\ [][CallCard]_vars

\* The type lists tried: every list of these strings up to MaxTypes long.
TypeStrings == {"inspire me", "Tech Specific", "keynote", ""}

TypeLists == UNION {[1..n -> TypeStrings] : n \in 0..MaxTypes}

InitOptions ==
    /\ Idle
    /\ \E d \in {"2017-11-08", "2017-11-09"}, m \in ClockTimes, l \in TypeLists :
          call = [fn |-> "build_options", args |-> <<d, m, l>>, ret |-> None]

CallOptions ==
    /\ pc = "call"
    /\ call.fn = "build_options"
    /\ call' = [call EXCEPT !.ret =
                   Some(build_options(call.args[1], call.args[2], agenda_json,
                                      call.args[3]))]
    /\ pc' = "return"
    /\ UNCHANGED <<request, response, pre>>

SpecOptions == InitOptions /\ [][CallOptions]_vars

-----------------------------------------------------------------------------
(* Invocations for several conversations, interleaved.  Every variable is a  *)
(* function of the conversation; an invocation holds its own request dict.   *)

Conversations == 1..MaxConversations

PairSlotSets ==
    {[SessionType |-> None, SessionDate |-> None, SessionTime |-> None],
     [SessionType |-> None, SessionDate |-> Some("2017-11-08"),
      SessionTime |-> Some(HHMM(10, 15))],
     [SessionType |-> Some("seminar"), SessionDate |-> Some("2017-11-08"),
      SessionTime |-> Some(HHMM(10, 15))],
     [SessionType |-> Some("inspire me"), SessionDate |-> Some("2017-11-08"),
      SessionTime |-> Some(HHMM(17, 0))],
     [SessionType |-> Some("keynote"), SessionDate |-> Some("someday"),
      SessionTime |-> Some(HHMM(10, 15))],
     [SessionType |-> None, SessionDate |-> None,
      SessionTime |-> Some(<<"9", "a", "m">>)]}

PairRequests ==
    {Request("CheckConferenceAgenda", s, "None", None, i) :
        s \in PairSlotSets, i \in InvocationSources}

InitPair ==
    /\ request \in [Conversations -> PairRequests]
    /\ response = [c \in Conversations |-> NoResponse]
    /\ pre = [c \in Conversations |-> get_slots(request[c])]
    /\ pc = [c \in Conversations |-> "request"]
    /\ call = [c \in Conversations |-> NoCall]

\* A module-level slots dict: every invocation works on the slots of the
\* first conversation.
OwnRequest_shared_slots(c) ==
    [request[c] EXCEPT !.currentIntent.slots = get_slots(request[1])]

\* The intent_request of the invocation for conversation c.
OwnRequest(c) == request[c]

\* The invocation for c runs up to its return statement: the slots of its
\* request are validated and, on a violation, the violated slot is cleared.
Begin(c) ==
    /\ pc[c] = "request"
    /\ LET r == lambda_handler(OwnRequest(c))
       IN  /\ call' = [call EXCEPT ![c] = [fn |-> "lambda_handler",
                                           args |-> <<>>, ret |-> Some(r)]]
           /\ request' = [request EXCEPT ![c].currentIntent.slots = r.slots]
    /\ pc' = [pc EXCEPT ![c] = "running"]
    /\ UNCHANGED <<response, pre>>

\* The invocation for c returns its action, or fails.
Finish(c) ==
    /\ pc[c] = "running"
    /\ response' = [response EXCEPT ![c] = [raised |-> call[c].ret[1].raised,
                                            value |-> call[c].ret[1].value]]
    /\ pc' = [pc EXCEPT ![c] = "response"]
    /\ UNCHANGED <<request, pre, call>>

NextPair == \E c \in Conversations : Begin(c) \/ Finish(c)

SpecPair == InitPair /\ [][NextPair]_vars

-----------------------------------------------------------------------------
(* A conversation followed from its first turn.  The host runtime keeps the  *)
(* slots an action hands back; the user fills slots that are empty.  call    *)
(* holds the trail of the turns: for each turn its place in the scenario,    *)
(* its source, the number of slots it received filled, and its outcome.      *)

TalkInputs ==
    [SessionType |-> {Some("inspire me"), Some("Tech Specific"), Some("keynote")},
     SessionDate |-> {Some("2017-11-08"), Some("someday")},
     SessionTime |-> {Some(HHMM(10, 15)), Some(HHMM(17, 0)), Some(HHMM(7, 0)),
                      Some(<<"9", "a", "m">>)}]

EmptySlots == [SessionType |-> None, SessionDate |-> None, SessionTime |-> None]

Filled(slots) == Cardinality({k \in SlotNames : slots[k] # None})

\* The place of a request in the scenario, after the turns of the trail.
ScenarioTurn(req, trail) ==
    LET slots == get_slots(req)
        dialog == req.invocationSource = "DialogCodeHook"
        v == validate_conference_booking(slots.SessionType, slots.SessionDate,
                                         slots.SessionTime, session_types)
    IN  IF Len(trail) = 0 /\ dialog /\ slots = EmptySlots
        THEN "turn 1"
        ELSE IF /\ Len(trail) = 1 /\ trail[1].turn = "turn 1" /\ dialog
                /\ slots = [SessionType |-> None,
                            SessionDate |-> Some("2017-11-08"),
                            SessionTime |-> Some(HHMM(10, 15))]
        THEN "turn 2"
        ELSE IF /\ Len(trail) = 2 /\ trail[2].turn = "turn 2" /\ dialog
                /\ Filled(slots) = 3
                /\ v.raised = "none" /\ v.value.isValid
                /\ req.currentIntent.confirmationStatus = "None"
        THEN "turn 3"
        ELSE IF Len(trail) = 3 /\ trail[3].turn = "turn 3" /\ ~dialog
        THEN "turn 4"
        ELSE "other"

Outcome(r) == IF r.value # None THEN r.value[1].dialogAction.type ELSE r.raised

InitTalk ==
    /\ \E i \in InvocationSources :
          request = Request("CheckConferenceAgenda", EmptySlots, "None", None, i)
    /\ response = NoResponse
    /\ pre = EmptySlots
    /\ pc = "request"
    /\ call = [fn |-> "conversation", args |-> <<>>, ret |-> None]

\* The host runtime invokes the handler on the pending request.
InvokeTurn ==
    /\ pc = "request"
    /\ Len(call.args) < MaxTurns
    /\ LET r == lambda_handler(request)
       IN  /\ response' = [raised |-> r.raised, value |-> r.value]
           /\ request' = [request EXCEPT !.currentIntent.slots = r.slots]
           /\ call' = [call EXCEPT !.args =
                          Append(@, [turn |-> ScenarioTurn(request, call.args),
                                     source |-> request.invocationSource,
                                     filled |-> Filled(get_slots(request)),
                                     outcome |-> Outcome(r)])]
    /\ pre' = get_slots(request)
    /\ pc' = "response"

\* The user fills one or more of the empty slots of the slots handed back,
\* or none, and the host runtime submits them with a source and a status.
UserSays ==
    /\ pc = "response"
    /\ response.value # None
    /\ "slots" \in DOMAIN Action
    /\ \E s \in [SessionType : TalkInputs.SessionType \cup {None},
                 SessionDate : TalkInputs.SessionDate \cup {None},
                 SessionTime : TalkInputs.SessionTime \cup {None}],
          c \in {"None", "Confirmed"}, i \in InvocationSources :
          /\ \A k \in SlotNames : Action.slots[k] # None => s[k] = Action.slots[k]
          /\ request' = Request(request.currentIntent.name, s, c,
                                request.sessionAttributes, i)
          /\ pre' = s
    /\ response' = NoResponse
    /\ pc' = "request"
    /\ UNCHANGED call

NextTalk == InvokeTurn \/ UserSays

SpecTalk == InitTalk /\ [][NextTalk]_vars

-----------------------------------------------------------------------------
(* The host runtime re-submits the slots handed back, with no new input, on   *)
(* DialogCodeHook turns.  call counts the validation-failure ElicitSlot       *)
(* actions returned in a row.                                                 *)

InitLoop ==
    /\ \E s \in SlotSets, c \in ConfirmationStatuses, a \in AttributeBags :
          request = Request("CheckConferenceAgenda", s, c, a, "DialogCodeHook")
    /\ response = NoResponse
    /\ pre = get_slots(request)
    /\ pc = "request"
    /\ call = [fn |-> "resubmit", args |-> <<0>>, ret |-> None]

\* The action is the ElicitSlot of lines 220-225: it carries no card.
IsReprompt(r) ==
    /\ r.value # None
    /\ r.value[1].dialogAction.type = "ElicitSlot"
    /\ r.value[1].dialogAction.responseCard = None

InvokeAgain ==
    /\ pc = "request"
    /\ LET r == lambda_handler(request)
       IN  /\ response' = [raised |-> r.raised, value |-> r.value]
           /\ request' = [request EXCEPT !.currentIntent.slots = r.slots]
           /\ call' = [call EXCEPT !.args =
                          IF IsReprompt(r) THEN <<@[1] + 1>> ELSE <<0>>]
    /\ pre' = get_slots(request)
    /\ pc' = "response"

ResubmitSame ==
    /\ pc = "response"
    /\ response.value # None
    /\ "slots" \in DOMAIN Action
    /\ request' = [request EXCEPT !.currentIntent.slots = Action.slots]
    /\ pre' = Action.slots
    /\ response' = NoResponse
    /\ pc' = "request"
    /\ UNCHANGED call

NextLoop == InvokeAgain \/ ResubmitSame

SpecLoop == InitLoop /\ [][NextLoop]_vars

-----------------------------------------------------------------------------
(* Vocabulary of the properties *)

\* The handler has answered a request that dispatch hands to book_session.
Handled == pc = "response" /\ request.currentIntent.name = "CheckConferenceAgenda"

DialogHookTurn == Handled /\ request.invocationSource = "DialogCodeHook"

\* The call returned an action of type t.
Gave(t) ==
    /\ response.raised = "none"
    /\ response.value # None
    /\ Action.type = t

\* The verdict of the validator on the slots the turn received.
PreVerdict ==
    validate_conference_booking(pre.SessionType, pre.SessionDate,
                                pre.SessionTime, session_types)

PreValid == PreVerdict.raised = "none" /\ PreVerdict.value.isValid

Buttons(card) == card.genericAttachments[1].buttons

Colons(t) == {i \in 1..Len(t) : t[i] = ":"}

\* The two parts of a time string with exactly one colon.
HourPart(t) == SubSeq(t, 1, (CHOOSE i \in Colons(t) : TRUE) - 1)
MinutePart(t) == SubSeq(t, (CHOOSE i \in Colons(t) : TRUE) + 1, Len(t))

\* Five characters, one colon, an integer on each side of it.
WellFormedTime(t) ==
    /\ Len(t) = 5
    /\ Cardinality(Colons(t)) = 1
    /\ ~isnan(parse_int(HourPart(t)))
    /\ ~isnan(parse_int(MinutePart(t)))

InBusinessHours(t) == parse_int(HourPart(t)).val \in 8..17

AllowedTracks == {"inspire me", "tech specific", "seminar"}

\* The user-input errors, on optional slot values.
BadTrack(t) == t # None /\ Lower(t[1]) \notin AllowedTracks
BadDate(d) ==
    d # None /\ (dateutil_parse(d[1]).ok => dateutil_parse(d[1]).date # <<2017, 11, 8>>)
BadTime(m) == m # None /\ (WellFormedTime(m[1]) => ~InBusinessHours(m[1]))

\* The first slot in error, in the order type, date, time.
FirstBad(t, d, m) ==
    IF BadTrack(t) THEN "SessionType"
    ELSE IF BadDate(d) THEN "SessionDate"
    ELSE "SessionTime"

\* Minutes since midnight of a zero-padded HH:MM string.
MinutesOf(t) ==
    60 * (10 * DigitVal(t[1]) + DigitVal(t[2])) + 10 * DigitVal(t[4]) + DigitVal(t[5])

\* The track has a session the Session Matcher accepts for that date and time.
Eligible(track, date, time) ==
    \E i \in 1..Len(agenda_json) :
        /\ Lower(agenda_json[i].track) = track
        /\ agenda_json[i].date = date
        /\ StrGT(agenda_json[i].start, time)

-----------------------------------------------------------------------------
(* Properties *)

\* C1: on a request whose invocationSource is not 'DialogCodeHook',
\* book_session returns Close with fulfillmentState 'Fulfilled' whatever the
\* slots and the confirmationStatus, and leaves the slots as they were.
C1_FulfillmentCloses ==
    (Handled /\ request.invocationSource # "DialogCodeHook")
        => /\ Gave("Close")
           /\ Action.fulfillmentState = "Fulfilled"
           /\ get_slots(request) = pre

\* A fulfillment turn with slots the validator rejects, answered by Close.
C1_Witness ==
    /\ Handled
    /\ request.invocationSource = "FulfillmentCodeHook"
    /\ request.currentIntent.confirmationStatus = "Denied"
    /\ pre.SessionType = Some("keynote")
    /\ pre.SessionTime = Some(<<"9", "a", "m">>)
    /\ ~PreValid
    /\ Gave("Close")

\* C2: on a DialogCodeHook turn where the validator reports a violation,
\* book_session returns ElicitSlot for the violated slot, with that slot set
\* to null and the other two unchanged, and with the validator's message, or
\* a null message when the validator produced none.
C2_ViolationElicits ==
    (DialogHookTurn /\ PreVerdict.raised = "none" /\ ~PreVerdict.value.isValid)
        => /\ Gave("ElicitSlot")
           /\ Action.slotToElicit = PreVerdict.value.violatedSlot
           /\ Action.slots = [pre EXCEPT ![PreVerdict.value.violatedSlot[1]] = None]
           /\ Action.message = IF "message" \in DOMAIN PreVerdict.value
                               THEN Some(PreVerdict.value.message)
                               ELSE None

\* C3: on a DialogCodeHook turn where the three slots are present and pass
\* validation and confirmationStatus is 'None', book_session returns
\* ConfirmIntent with a summary message and the yes/no card.
C3_ConfirmWhenComplete ==
    (/\ DialogHookTurn
     /\ pre.SessionType # None /\ pre.SessionDate # None /\ pre.SessionTime # None
     /\ PreValid
     /\ request.currentIntent.confirmationStatus = "None")
        => /\ Gave("ConfirmIntent")
           /\ Action.message # None
           /\ Action.responseCard # None
           /\ Buttons(Action.responseCard[1]) = Some(YesNoOptions)

\* C4: on a DialogCodeHook turn where date and time are present and valid and
\* the type is absent, book_session returns ElicitSlot for 'SessionType' with
\* a digest of one line per track of the track list, a miss line for each
\* track without an eligible session, and a card whose buttons are the tracks
\* with an eligible session, in the order of the track list, at most 5.
C4_TypePrompt ==
    (/\ DialogHookTurn
     /\ pre.SessionDate # None /\ pre.SessionTime # None
     /\ PreValid
     /\ pre.SessionType = None)
        => /\ Gave("ElicitSlot")
           /\ Action.slotToElicit = Some("SessionType")
           /\ Action.message # None
           /\ Action.responseCard # None
           /\ LET date == pre.SessionDate[1]
                  time == pre.SessionTime[1]
                  content == Action.message[1].content
                  lines == SubSeq(content, 2, Len(content) - 1)
                  buttons == Buttons(Action.responseCard[1])
                  wanted == SelectSeq(session_types,
                                      LAMBDA t : Eligible(t, date, time))
              IN  /\ Len(lines) = Len(session_types)
                  /\ \A i \in 1..Len(session_types) :
                        IF Eligible(session_types[i], date, time)
                        THEN /\ Len(lines[i]) = 9
                             /\ Lower(lines[i][2]) = session_types[i]
                        ELSE lines[i] = <<"-", session_types[i], " track: None\n">>
                  /\ buttons # None
                  /\ Len(buttons[1]) <= 5
                  /\ [i \in 1..Len(buttons[1]) |-> buttons[1][i].value] = wanted

\* A type prompt at 10:15 with a button for each of the three tracks.
C4_Witness ==
    /\ DialogHookTurn
    /\ pre = [SessionType |-> None, SessionDate |-> Some("2017-11-08"),
              SessionTime |-> Some(HHMM(10, 15))]
    /\ Gave("ElicitSlot")
    /\ Action.slotToElicit = Some("SessionType")
    /\ Len(Buttons(Action.responseCard[1])[1]) = 3

\* C5: on a DialogCodeHook turn where validation passes and the date or the
\* time is missing, or the three slots are known and confirmationStatus is
\* not 'None', book_session returns Delegate with the slots unchanged.
C5_OtherwiseDelegate ==
    (/\ DialogHookTurn
     /\ PreValid
     /\ \/ pre.SessionDate = None
        \/ pre.SessionTime = None
        \/ /\ pre.SessionType # None /\ pre.SessionDate # None
           /\ pre.SessionTime # None
           /\ request.currentIntent.confirmationStatus # "None")
        => /\ Gave("Delegate")
           /\ Action.slots = pre
           /\ get_slots(request) = pre

\* A confirmed booking of three valid slots, delegated.
C5_Witness ==
    /\ DialogHookTurn
    /\ pre = [SessionType |-> Some("seminar"), SessionDate |-> Some("2017-11-08"),
              SessionTime |-> Some(HHMM(10, 0))]
    /\ request.currentIntent.confirmationStatus = "Confirmed"
    /\ Gave("Delegate")

\* C6: on a DialogCodeHook turn every user-input error (track not allowed,
\* date unparsable or not the conference day, time malformed or out of
\* hours) ends in a returned ElicitSlot for the offending slot; book_session
\* never raises on such an input.
C6_ErrorsAreElicited ==
    (/\ DialogHookTurn
     /\ \/ BadTrack(pre.SessionType)
        \/ BadDate(pre.SessionDate)
        \/ BadTime(pre.SessionTime))
        => /\ Gave("ElicitSlot")
           /\ Action.slotToElicit =
                  Some(FirstBad(pre.SessionType, pre.SessionDate, pre.SessionTime))

Validated == pc = "return" /\ call.fn = "validate_conference_booking"

\* C7: for a present SessionTime that is not 5 characters of the form HH:MM
\* with two integer parts, with type and date valid or absent,
\* validate_conference_booking returns isValid false, violatedSlot
\* 'SessionTime' and no message.
C7_MalformedTimeNoMessage ==
    (/\ Validated
     /\ ~BadTrack(call.args[1]) /\ ~BadDate(call.args[2])
     /\ call.args[3] # None
     /\ ~WellFormedTime(call.args[3][1]))
        => /\ call.ret[1].raised = "none"
           /\ ~call.ret[1].value.isValid
           /\ call.ret[1].value.violatedSlot = Some("SessionTime")
           /\ "message" \notin DOMAIN call.ret[1].value

\* C8: for a well-formed 5-character HH:MM SessionTime, with type and date
\* valid or absent, validate_conference_booking returns valid exactly when
\* the hour is in 8..17, and otherwise invalid on 'SessionTime' with the
\* business-hours message.
C8_BusinessHours ==
    (/\ Validated
     /\ ~BadTrack(call.args[1]) /\ ~BadDate(call.args[2])
     /\ call.args[3] # None
     /\ WellFormedTime(call.args[3][1]))
        => /\ call.ret[1].raised = "none"
           /\ call.ret[1].value.isValid <=> InBusinessHours(call.args[3][1])
           /\ ~call.ret[1].value.isValid
                 => /\ call.ret[1].value.violatedSlot = Some("SessionTime")
                    /\ "message" \in DOMAIN call.ret[1].value
                    /\ call.ret[1].value.message = PlainText(HoursMessage)

\* 18:15, after the business hours, rejected with the message.
C8_Witness ==
    /\ Validated
    /\ call.args = <<Some("seminar"), Some("2017-11-08"), Some(HHMM(MaxHour, 15))>>
    /\ ~call.ret[1].value.isValid
    /\ "message" \in DOMAIN call.ret[1].value

\* C9: validate_conference_booking reports the first violation in the order
\* type, date, time: 'SessionType' when the type is invalid, else
\* 'SessionDate' when the date is invalid, else 'SessionTime' when the time
\* is invalid, and valid only when all present slots pass.
C9_FirstViolation ==
    Validated
        => /\ call.ret[1].raised = "none"
           /\ LET t == call.args[1]
                  d == call.args[2]
                  m == call.args[3]
                  r == call.ret[1].value
              IN  IF BadTrack(t) \/ BadDate(d) \/ BadTime(m)
                  THEN ~r.isValid /\ r.violatedSlot = Some(FirstBad(t, d, m))
                  ELSE r.isValid

Found == pc = "return" /\ call.fn = "find_session"

\* The sessions of the agenda of that track and date that start after time.
LaterSessions(track, date, time) ==
    {i \in 1..Len(agenda_json) :
        /\ track # None
        /\ Lower(agenda_json[i].track) = Lower(track[1])
        /\ agenda_json[i].date = date
        /\ MinutesOf(agenda_json[i].start) > MinutesOf(time)}

\* C10: for a track matched case-insensitively, a date and an HH:MM time,
\* find_session on the built-in agenda returns the session of that track and
\* date with the smallest start strictly after the time, and nothing exactly
\* when there is no such session or the type is absent.
C10_NextSession ==
    Found
        => LET later == LaterSessions(call.args[1], call.args[2], call.args[3])
               r == call.ret[1]
           IN  /\ r = None <=> later = {}
               /\ r # None
                     => \E i \in later :
                           /\ agenda_json[i] = r[1]
                           /\ \A j \in later :
                                 MinutesOf(agenda_json[j].start)
                                     >= MinutesOf(agenda_json[i].start)

\* Tech Specific at 11:45 finds the session that starts at 12:00.
C10_Witness ==
    /\ Found
    /\ call.args = <<Some("Tech Specific"), "2017-11-08", HHMM(11, 45)>>
    /\ call.ret[1] # None
    /\ call.ret[1][1].name = "Browser Peer to Peer Connections for Fun and Profit"
    /\ call.ret[1][1].start = HHMM(12, 0)

Carded == pc = "return" /\ call.fn = "build_response_card"

\* C11: for every options list, the buttons of the card build_response_card
\* returns are the first min(5, len(options)) options in their order, hence
\* never more than 5.
C11_AtMostFiveButtons ==
    (Carded /\ call.args[1] # None)
        => LET options == call.args[1][1]
               buttons == Buttons(call.ret[1])
           IN  /\ buttons # None
               /\ Len(buttons[1]) = IF Len(options) < 5 THEN Len(options) ELSE 5
               /\ Len(buttons[1]) <= 5
               /\ \A i \in 1..Len(buttons[1]) : buttons[1][i] = options[i]

\* A list of more than 5 options, cut to 5 buttons.
C11_Witness ==
    /\ Carded
    /\ call.args[1] # None
    /\ Len(call.args[1][1]) > 5
    /\ Len(Buttons(call.ret[1])[1]) = 5

Optioned == pc = "return" /\ call.fn = "build_options"

\* C12: build_options returns, in the order of the given types, one entry
\* for each type find_session finds a session for and none for the others;
\* the value of an entry is the type string as given, its text names the
\* track and the start of the session found, and there are never more
\* entries than types.
C12_OptionsOfMatches ==
    Optioned
        => LET date == call.args[1]
               time == call.args[2]
               types == call.args[3]
               options == call.ret[1]
               match(t) == find_session(Some(t), date, time, agenda_json)
               matched == SelectSeq(types, LAMBDA t : match(t) # None)
           IN  /\ Len(options) = Len(matched)
               /\ Len(options) <= Len(types)
               /\ \A i \in 1..Len(options) :
                     /\ options[i].value = matched[i]
                     /\ options[i].text = <<match(matched[i])[1].track, " at ",
                                            match(matched[i])[1].start>>

\* At 11:45 the unknown track is left out and the other two keep their order.
C12_Witness ==
    /\ Optioned
    /\ call.args = <<"2017-11-08", HHMM(11, 45),
                     <<"keynote", "Tech Specific", "inspire me">>>>
    /\ Len(call.ret[1]) = 2
    /\ call.ret[1][1].value = "Tech Specific"
    /\ call.ret[1][2] = [text |-> <<"Inspire Me", " at ", HHMM(12, 0)>>,
                         value |-> "inspire me"]

\* The request as the handler received it.
PreRequest == [request EXCEPT !.currentIntent.slots = pre]

\* C13: dispatch hands the request to book_session only when the intent name
\* is 'CheckConferenceAgenda'; for any other name the invocation fails with
\* an error, returns no action and leaves the slots unchanged.
C13_DispatchByName ==
    pc = "response"
        => IF request.currentIntent.name = "CheckConferenceAgenda"
           THEN LET r == book_session(PreRequest)
                IN  /\ response = [raised |-> r.raised, value |-> r.value]
                    /\ get_slots(request) = r.slots
           ELSE /\ response.raised = "Exception"
                /\ response.value = None
                /\ get_slots(request) = pre

\* Another intent on a dialog turn with a time, -1:30, that book_session
\* would have cleared.
C13_Witness ==
    /\ pc = "response"
    /\ request.currentIntent.name = "OrderFlowers"
    /\ request.invocationSource = "DialogCodeHook"
    /\ pre.SessionType = None /\ pre.SessionDate = None
    /\ pre.SessionTime = Some(<<"-", "1", ":", "3", "0">>)
    /\ response.raised = "Exception"

\* C14 as claimed: every action book_session returns carries the request's
\* sessionAttributes unchanged, a null bag included.
C14_AttributesUnchanged ==
    (Handled /\ response.value # None)
        => response.value[1].sessionAttributes = request.sessionAttributes

\* C14, amended: every action book_session returns carries the request's
\* sessionAttributes unchanged when the bag is not null; for a null bag the
\* validation-failure ElicitSlot and Close carry null, and the ElicitSlot for
\* 'SessionType' of the date+time case, ConfirmIntent and Delegate carry an
\* empty mapping.
C14_AttributesKept ==
    (Handled /\ response.value # None)
        => IF request.sessionAttributes # None
           THEN response.value[1].sessionAttributes = request.sessionAttributes
           ELSE IF Action.type = "Close" \/ (Action.type = "ElicitSlot" /\ ~PreValid)
           THEN response.value[1].sessionAttributes = None
           ELSE response.value[1].sessionAttributes = Some({})

\* A delegated turn that received attributes and hands them back.
C14_Witness ==
    /\ DialogHookTurn
    /\ request.sessionAttributes = Some({<<"lastTrack", "seminar">>})
    /\ Gave("Delegate")
    /\ response.value[1].sessionAttributes = Some({<<"lastTrack", "seminar">>})

\* The turn returned the ElicitSlot of a validation failure.
ValidationReprompt ==
    /\ Gave("ElicitSlot")
    /\ PreVerdict.raised = "none"
    /\ ~PreVerdict.value.isValid

\* C15: book_session changes the request's slots only on a turn that returns
\* the validation-failure ElicitSlot, and then only the violated slot; on
\* every other outcome, a failed call included, the slots after the call
\* equal the slots before it.
C15_SlotsFrame ==
    pc = "response"
        => IF Handled /\ ValidationReprompt
           THEN \A k \in SlotNames \ {PreVerdict.value.violatedSlot[1]} :
                   get_slots(request)[k] = pre[k]
           ELSE get_slots(request) = pre

\* The request of conversation c as its invocation received it.
Received(c) == [request[c] EXCEPT !.currentIntent.slots = pre[c]]

Talking == call.fn = "conversation"

ScenarioOutcomes == <<"Delegate", "ElicitSlot", "ConfirmIntent", "Close">>

ScenarioTurns == <<"turn 1", "turn 2", "turn 3", "turn 4">>

\* C17: a conversation of the four turns (1) DialogCodeHook with all slots
\* empty, (2) DialogCodeHook with date 2017-11-08, time 10:15 and no type,
\* (3) DialogCodeHook with the three slots valid and confirmationStatus
\* 'None', (4) fulfillment, yields Delegate, ElicitSlot for 'SessionType'
\* with a card of at most 5 buttons, ConfirmIntent and Close/'Fulfilled', in
\* this order.  No DialogCodeHook turn yields Close and no turn yields
\* ConfirmIntent before the three slots are filled.
C17_Scenario ==
    Talking
        => /\ \A n \in 1..Len(call.args) :
                 /\ (n <= Len(ScenarioTurns) /\ call.args[n].turn = ScenarioTurns[n])
                       => call.args[n].outcome = ScenarioOutcomes[n]
                 /\ call.args[n].source = "DialogCodeHook"
                       => call.args[n].outcome # "Close"
                 /\ call.args[n].outcome = "ConfirmIntent"
                       => call.args[n].filled = 3
           /\ (/\ pc = "response" /\ Len(call.args) = 2
               /\ call.args[2].turn = "turn 2")
                 => /\ Gave("ElicitSlot")
                    /\ Action.slotToElicit = Some("SessionType")
                    /\ Action.responseCard # None
                    /\ Len(Buttons(Action.responseCard[1])[1]) <= 5
           /\ (/\ pc = "response" /\ Len(call.args) = 4
               /\ call.args[4].turn = "turn 4")
                 => Gave("Close") /\ Action.fulfillmentState = "Fulfilled"

\* The four turns of the scenario, answered by the four actions.
C17_Witness ==
    /\ Talking
    /\ pc = "response"
    /\ Len(call.args) = 4
    /\ \A n \in 1..4 : /\ call.args[n].turn = ScenarioTurns[n]
                       /\ call.args[n].outcome = ScenarioOutcomes[n]
    /\ Gave("Close")

\* C18: in every ElicitSlot action book_session returns, the slot named by
\* slotToElicit is null in the slots the action carries.
C18_ElicitedSlotIsNull ==
    (Handled /\ Gave("ElicitSlot"))
        => /\ Action.slotToElicit # None
           /\ Action.slots[Action.slotToElicit[1]] = None

\* The day after the conference, cleared and asked for again.
C18_Witness ==
    /\ DialogHookTurn
    /\ pre.SessionDate = Some("2017-11-09")
    /\ Gave("ElicitSlot")
    /\ Action.slotToElicit = Some("SessionDate")
    /\ Action.slots.SessionDate = None

\* C19: when a DialogCodeHook turn returns Delegate, ConfirmIntent or the
\* ElicitSlot for 'SessionType' of the date+time case, every non-null slot of
\* the slots it carries passes validation: an allowed track, the date
\* 2017-11-08, a time of two integer parts with the hour in 8..17.
C19_OnlyValidSlotsGoOn ==
    (/\ DialogHookTurn
     /\ \/ Gave("Delegate")
        \/ Gave("ConfirmIntent")
        \/ Gave("ElicitSlot") /\ Action.responseCard # None)
        => /\ ~BadTrack(Action.slots.SessionType)
           /\ ~BadDate(Action.slots.SessionDate)
           /\ ~BadTime(Action.slots.SessionTime)

\* Three valid slots at 08:00, offered for confirmation.
C19_Witness ==
    /\ DialogHookTurn
    /\ Gave("ConfirmIntent")
    /\ Action.slots = [SessionType |-> Some("Tech Specific"),
                       SessionDate |-> Some("2017-11-08"),
                       SessionTime |-> Some(HHMM(8, 0))]

Looping == call.fn = "resubmit" /\ pc = "response"

\* C20: a turn that returns the validation-failure ElicitSlot hands back one
\* filled slot fewer than it received, so when the host re-submits the slots
\* handed back with no new input, at most three validation-failure turns
\* follow one another and the controller then returns an action that is not
\* a validation-failure re-prompt.
C20_RepromptLoopEnds ==
    Looping
        => /\ response.value # None
           /\ ValidationReprompt => Filled(Action.slots) = Filled(pre) - 1
           /\ call.args[1] <= 3
           /\ PreValid => ~ValidationReprompt

=============================================================================
